---- MODULE Spec2Model ----
(***************************************************************************)
(* The three programs of the repository as state machines.                  *)
(*                                                                          *)
(* The GitHub account strength analyzer (GitHub-Analyzer/github_analyzer.py)*)
(* is one run of main() over a fetched snapshot, with the wall clock as     *)
(* environment.  The file manager (cmdfile-manager/cmdfile.py) is its       *)
(* recycle bin in one directory and its lock screen.  The password          *)
(* generator (Password-Generator/password.py) is one call of                *)
(* generate_password.  Each specification runs one program and leaves the   *)
(* variables of the other two idle.                                         *)
(*                                                                          *)
(* Time is counted in ticks, TicksPerDay ticks to a day.  A timestamp of    *)
(* the feed ('%Y-%m-%dT%H:%M:%SZ') is a record [date, tod] that strptime    *)
(* turns into ticks; datetime.now() is the variable clock.  Both are naive  *)
(* datetimes, as in the source.                                             *)
(*                                                                          *)
(* The float tests of the source, (documented / count) * 100 >= 80 and      *)
(* recent >= count * 0.3, are modelled by exact integer cross products: for *)
(* every count up to 2000 the IEEE double results agree with the rationals. *)
(***************************************************************************)
EXTENDS Integers, Sequences, FiniteSets, TLC

\* The analyzer's run.
VARIABLES pc, clock, data, profile_analysis, repo_analysis,
          activity_analysis, total_score, recommendations, reads

\* The file manager (cmdfile-manager/cmdfile.py): the entries of the current
\* directory, its .recycle_bin, the entries soft-deleted and not restored,
\* the number of menu operations done, and the lock screen.
VARIABLES files, recycle_bin, recycled, operations, lock

\* The password generator (Password-Generator/password.py): one call of
\* generate_password.
VARIABLES password

analyzerVars == <<pc, clock, data, profile_analysis, repo_analysis,
                  activity_analysis, total_score, recommendations, reads>>

managerVars == <<files, recycle_bin, recycled, operations, lock>>

generatorVars == <<password>>

vars == <<pc, clock, data, profile_analysis, repo_analysis,
          activity_analysis, total_score, recommendations, reads,
          files, recycle_bin, recycled, operations, lock, password>>

(***************************** bounds **************************************)
\* Longest repository list of the inputs.
MaxRepos == 12
\* Longest event list of the inputs.
MaxEvents == 50
\* Most distinct languages / event types of the inputs.
MaxKinds == 6
\* Ticks the wall clock may advance during one run.
MaxTicks == 1
\* Resolution of the clock: ticks per day.
TicksPerDay == 2

(************************* Python values ***********************************)
\* Python's None, as a token no field value equals.
None == "<None>"

\* bool(v) of an optional string: None and '' are falsy.
Truthy(v) == v # None /\ v # ""

\* dict.get(k, default)
Get(d, k, default) == IF k \in DOMAIN d THEN d[k] ELSE default

RECURSIVE SumSeq(_)
SumSeq(s) == IF s = <<>> THEN 0 ELSE Head(s) + SumSeq(Tail(s))

\* timedelta(days=n), in ticks
timedelta(days) == days * TicksPerDay

\* datetime.strptime(ts, '%Y-%m-%dT%H:%M:%SZ'), in ticks
strptime(ts) == ts.date * TicksPerDay + ts.tod

\* timedelta.days: whole days, rounded towards minus infinity
DaysOf(delta) == delta \div TicksPerDay

\* f"{x:.1f}" of (num / den) * 100, in tenths, round-half-even
Percent1f(num, den) ==
    LET q == (num * 1000) \div den
        r == (num * 1000) % den
    IN  IF 2 * r > den \/ (2 * r = den /\ q % 2 = 1) THEN q + 1 ELSE q

\* One detail string: its colour and its text, and the value it prints.
Detail(color, text) == [color |-> color, text |-> text]
DetailV(color, text, value) == [color |-> color, text |-> text, value |-> value]

\* A scorer's return value, and the two other outcomes of a call.
Result(score, details) == [status |-> "ok", score |-> score, details |-> details]
Raised(exc) == [status |-> exc, score |-> 0, details |-> <<>>]
NoResult == [status |-> "unset", score |-> 0, details |-> <<>>]

(******************** analyze_profile_completeness *************************)
\* One "if user_data.get(field): score += points ... else ..." block.
FieldCheck_SilentMiss(acc, present, points, okText, missText) ==
    IF present
    THEN Result(acc.score + points, Append(acc.details, Detail("OKGREEN", okText)))
    ELSE acc

FieldCheck(acc, present, points, okText, missText) ==
    IF present
    THEN Result(acc.score + points, Append(acc.details, Detail("OKGREEN", okText)))
    ELSE Result(acc.score, Append(acc.details, Detail("WARNING", missText)))

\* The followers block: user_data.get('followers', 0) > 0.
FollowersCheck_Inclusive(acc, user_data) ==
    IF Get(user_data, "followers", 0) >= 0
    THEN Result(acc.score + 15,
                Append(acc.details,
                       DetailV("OKGREEN", "Has followers", Get(user_data, "followers", 0))))
    ELSE Result(acc.score, Append(acc.details, Detail("WARNING", "No followers")))

FollowersCheck(acc, user_data) ==
    IF Get(user_data, "followers", 0) > 0
    THEN Result(acc.score + 15,
                Append(acc.details,
                       DetailV("OKGREEN", "Has followers", user_data["followers"])))
    ELSE Result(acc.score, Append(acc.details, Detail("WARNING", "No followers")))

analyze_profile_completeness(user_data) ==
    LET has(k) == Truthy(Get(user_data, k, None))
        s0 == Result(0, <<>>)
        s1 == FieldCheck(s0, has("name"), 10, "Name provided", "Name missing")
        s2 == FieldCheck(s1, has("bio"), 10, "Bio provided", "Bio missing")
        s3 == FieldCheck(s2, has("location"), 10, "Location provided", "Location missing")
        s4 == FieldCheck(s3, has("company"), 10, "Company provided", "Company missing")
        s5 == FieldCheck(s4, has("email"), 15, "Email provided", "Email missing")
        s6 == FieldCheck(s5, has("blog"), 15, "Website/blog provided", "Website/blog missing")
        s7 == FieldCheck(s6, has("twitter_username"), 15, "Twitter linked", "Twitter not linked")
    IN  FollowersCheck(s7, user_data)

(********************* analyze_repository_quality **************************)
\* A three-way bucket: its points and the detail it appends.
Bucket(points, color, text, value) ==
    [points |-> points, detail |-> DetailV(color, text, value)]

AddBucket(acc, b) == Result(acc.score + b.points, Append(acc.details, b.detail))

CountBucket_Swapped(repo_count) ==
    IF repo_count >= 10 THEN Bucket(15, "OKGREEN", "Good repository count", repo_count)
    ELSE IF repo_count >= 5 THEN Bucket(20, "OKCYAN", "Moderate repository count", repo_count)
    ELSE Bucket(10, "WARNING", "Few repositories", repo_count)

CountBucket(repo_count) ==
    IF repo_count >= 10 THEN Bucket(20, "OKGREEN", "Good repository count", repo_count)
    ELSE IF repo_count >= 5 THEN Bucket(15, "OKCYAN", "Moderate repository count", repo_count)
    ELSE Bucket(10, "WARNING", "Few repositories", repo_count)

\* doc_percentage = (documented_repos / repo_count) * 100, compared exactly.
DocBucket(documented_repos, repo_count) ==
    LET shown == Percent1f(documented_repos, repo_count)
    IN  IF documented_repos * 100 >= 80 * repo_count
        THEN Bucket(25, "OKGREEN", "Excellent documentation", shown)
        ELSE IF documented_repos * 100 >= 60 * repo_count
        THEN Bucket(20, "OKCYAN", "Good documentation", shown)
        ELSE Bucket(10, "WARNING", "Poor documentation", shown)

LangBucket(lang_count) ==
    IF lang_count >= 5 THEN Bucket(20, "OKGREEN", "Great language diversity", lang_count)
    ELSE IF lang_count >= 3 THEN Bucket(15, "OKCYAN", "Good language diversity", lang_count)
    ELSE Bucket(10, "WARNING", "Limited language diversity", lang_count)

StarBucket_Twenty(total_stars) ==
    IF total_stars >= 50 THEN Bucket(20, "OKGREEN", "Great community engagement", total_stars)
    ELSE IF total_stars >= 10 THEN Bucket(10, "OKCYAN", "Good community engagement", total_stars)
    ELSE Bucket(5, "WARNING", "Limited community engagement", total_stars)

StarBucket(total_stars) ==
    IF total_stars >= 50 THEN Bucket(15, "OKGREEN", "Great community engagement", total_stars)
    ELSE IF total_stars >= 10 THEN Bucket(10, "OKCYAN", "Good community engagement", total_stars)
    ELSE Bucket(5, "WARNING", "Limited community engagement", total_stars)

\* recent_repos >= repo_count * 0.5 / * 0.3, compared exactly.
RecentBucket(recent_repos, repo_count) ==
    IF recent_repos * 10 >= repo_count * 5
    THEN Bucket(15, "OKGREEN", "Active maintenance", recent_repos)
    ELSE IF recent_repos * 10 >= repo_count * 3
    THEN Bucket(10, "OKCYAN", "Moderate maintenance", recent_repos)
    ELSE Bucket(5, "WARNING", "Limited maintenance", recent_repos)

DocumentedRepos(repos_data) ==
    Cardinality({i \in DOMAIN repos_data : Truthy(Get(repos_data[i], "description", None))})

Languages(repos_data) ==
    {repos_data[i]["language"] :
        i \in {j \in DOMAIN repos_data : Truthy(Get(repos_data[j], "language", None))}}

TotalStars_WithForks(repos_data) ==
    SumSeq([i \in DOMAIN repos_data |->
               Get(repos_data[i], "stargazers_count", 0)
               + Get(repos_data[i], "forks_count", 0)])

TotalStars(repos_data) ==
    SumSeq([i \in DOMAIN repos_data |-> Get(repos_data[i], "stargazers_count", 0)])

TotalForks(repos_data) ==
    SumSeq([i \in DOMAIN repos_data |-> Get(repos_data[i], "forks_count", 0)])

\* The generator's test for one repository, with the clock value `now` that
\* this evaluation of datetime.now() returned.
IsRecent_Inclusive(repo, now) == strptime(repo["updated_at"]) >= now - timedelta(90)

IsRecent(repo, now) == strptime(repo["updated_at"]) > now - timedelta(90)

\* nows[i] is what datetime.now() returned while repository i was tested.
RecentRepos(repos_data, nows) ==
    Cardinality({i \in DOMAIN repos_data : IsRecent(repos_data[i], nows[i])})

\* The early return for "not repos_data".
NoRepositories_Unguarded == Raised("ZeroDivisionError")

NoRepositories == Result(0, <<Detail("FAIL", "No repositories")>>)

analyze_repository_quality(repos_data, nows) ==
    IF repos_data = <<>>
    THEN NoRepositories
    ELSE IF \E i \in DOMAIN repos_data : "updated_at" \notin DOMAIN repos_data[i]
    THEN Raised("KeyError")
    ELSE LET repo_count == Len(repos_data)
             s1 == AddBucket(Result(0, <<>>), CountBucket(repo_count))
             s2 == AddBucket(s1, DocBucket(DocumentedRepos(repos_data), repo_count))
             s3 == AddBucket(s2, LangBucket(Cardinality(Languages(repos_data))))
             s4 == AddBucket(s3, StarBucket(TotalStars(repos_data)))
         IN  AddBucket(s4, RecentBucket(RecentRepos(repos_data, nows), repo_count))

(******************** analyze_activity_consistency *************************)
VolumeBucket(recent_events) ==
    IF recent_events >= 50 THEN Bucket(50, "OKGREEN", "Very active", recent_events)
    ELSE IF recent_events >= 20 THEN Bucket(40, "OKCYAN", "Active", recent_events)
    ELSE Bucket(25, "WARNING", "Limited activity", recent_events)

TypeBucket(type_count) ==
    IF type_count >= 5 THEN Bucket(30, "OKGREEN", "Diverse activity types", type_count)
    ELSE IF type_count >= 3 THEN Bucket(20, "OKCYAN", "Good activity diversity", type_count)
    ELSE Bucket(15, "WARNING", "Limited activity diversity", type_count)

LastBucket(days_since_last) ==
    IF days_since_last <= 7 THEN Bucket(20, "OKGREEN", "Very recent activity", days_since_last)
    ELSE IF days_since_last <= 30 THEN Bucket(15, "OKCYAN", "Recent activity", days_since_last)
    ELSE Bucket(10, "WARNING", "Activity not recent", days_since_last)

EventTypes(events_data) ==
    {Get(events_data[i], "type", "") : i \in DOMAIN events_data}

\* The event whose created_at the consistency block reads.
LatestEvent_Last(events_data) == events_data[Len(events_data)]

LatestEvent(events_data) == events_data[1]

\* The early return for "not events_data".
NoRecentActivity == Result(0, <<Detail("FAIL", "No recent activity")>>)

\* now is what the one call of datetime.now() returned.
analyze_activity_consistency(events_data, now) ==
    IF events_data = <<>>
    THEN NoRecentActivity
    ELSE LET s1 == AddBucket(Result(0, <<>>), VolumeBucket(Len(events_data)))
             s2 == AddBucket(s1, TypeBucket(Cardinality(EventTypes(events_data))))
         IN  IF "created_at" \notin DOMAIN LatestEvent(events_data)
             THEN Raised("KeyError")
             ELSE LET latest_event == strptime(LatestEvent(events_data)["created_at"])
                      days_since_last == DaysOf(now - latest_event)
                  IN  AddBucket(s2, LastBucket(days_since_last))

(************************* main: the report ********************************)
ProfileRemarks_Inclusive(score) ==
    IF score <= 80 THEN <<"Complete your profile with missing information">> ELSE <<>>

ProfileRemarks(score) ==
    IF score < 80 THEN <<"Complete your profile with missing information">> ELSE <<>>

RepoRemarks(score) ==
    IF score < 80
    THEN <<"Add descriptions to your repositories",
           "Diversify your programming languages">>
    ELSE <<>>

ActivityRemarks(score) ==
    IF score < 80 THEN <<"Increase your GitHub activity and consistency">> ELSE <<>>

ClosingRemark_Strict(total) ==
    IF total > 240 THEN "Excellent GitHub presence! Keep up the great work!"
    ELSE IF total > 180 THEN "Good GitHub presence with room for improvement"
    ELSE "Focus on building a stronger GitHub presence"

ClosingRemark(total) ==
    IF total >= 240 THEN "Excellent GitHub presence! Keep up the great work!"
    ELSE IF total >= 180 THEN "Good GitHub presence with room for improvement"
    ELSE "Focus on building a stronger GitHub presence"

TotalScore_Pair(p, r, a) == p.score + r.score

TotalScore(p, r, a) == p.score + r.score + a.score

(***************************** actions *************************************)
\* The non-decreasing sequences of n clock values in lo..hi: what n
\* successive calls of datetime.now() can return.
RECURSIVE NonDec(_, _, _)
NonDec(n, lo, hi) ==
    IF n = 0 THEN {<<>>}
    ELSE UNION {{<<v>> \o s : s \in NonDec(n - 1, v, hi)} : v \in lo..hi}

Range(s) == {s[i] : i \in DOMAIN s}

\* The wall clock advances, at any point of the run.
Tick ==
    /\ pc \in {"profile", "repos", "activity", "report", "scoring"}
    /\ clock < MaxTicks
    /\ clock' = clock + 1
    /\ UNCHANGED <<pc, data, profile_analysis, repo_analysis, activity_analysis,
                   total_score, recommendations, reads>>
    /\ UNCHANGED <<managerVars, generatorVars>>

\* profile_analysis = analyze_profile_completeness(data['user'])
AnalyzeProfile ==
    /\ pc = "profile"
    /\ profile_analysis' = analyze_profile_completeness(data.user)
    /\ pc' = "repos"
    /\ UNCHANGED <<clock, data, repo_analysis, activity_analysis, total_score,
                   recommendations, reads>>
    /\ UNCHANGED <<managerVars, generatorVars>>

\* repo_analysis = analyze_repository_quality(data['repos']); the clock is
\* read once per repository and may advance between two reads.  A KeyError
\* leaves main() through the handler at the bottom of the file.
AnalyzeRepos ==
    /\ pc = "repos"
    /\ \E nows \in NonDec(Len(data.repos), clock, MaxTicks) :
          LET res == analyze_repository_quality(data.repos, nows)
              missing == {i \in DOMAIN data.repos : "updated_at" \notin DOMAIN data.repos[i]}
              tested == {i \in DOMAIN data.repos : \A j \in missing : i < j}
          IN  /\ repo_analysis' = res
              /\ pc' = IF res.status = "ok" THEN "activity" ELSE "error"
              /\ clock' = IF nows = <<>> THEN clock ELSE nows[Len(nows)]
              /\ reads' = [reads EXCEPT !.repos = {nows[i] : i \in tested}]
    /\ UNCHANGED <<data, profile_analysis, activity_analysis, total_score,
                   recommendations>>
    /\ UNCHANGED <<managerVars, generatorVars>>

\* activity_analysis = analyze_activity_consistency(data['events'])
AnalyzeActivity ==
    /\ pc = "activity"
    /\ LET res == analyze_activity_consistency(data.events, clock)
       IN  /\ activity_analysis' = res
           /\ pc' = IF res.status = "ok" THEN "report" ELSE "error"
           /\ reads' = [reads EXCEPT !.activity =
                           IF data.events # <<>> /\ res.status = "ok" THEN {clock} ELSE {}]
    /\ UNCHANGED <<clock, data, profile_analysis, repo_analysis, total_score,
                   recommendations>>
    /\ UNCHANGED <<managerVars, generatorVars>>

\* The rest of main(): the total, then the recommendations in the order
\* they are printed, the closing remark last.
Report ==
    /\ pc = "report"
    /\ total_score' = TotalScore(profile_analysis, repo_analysis, activity_analysis)
    /\ recommendations' =
          ProfileRemarks(profile_analysis.score)
          \o RepoRemarks(repo_analysis.score)
          \o ActivityRemarks(activity_analysis.score)
          \o <<ClosingRemark(total_score')>>
    /\ pc' = "done"
    /\ UNCHANGED <<clock, data, profile_analysis, repo_analysis, activity_analysis,
                   reads>>
    /\ UNCHANGED <<managerVars, generatorVars>>

Next == Tick \/ AnalyzeProfile \/ AnalyzeRepos \/ AnalyzeActivity \/ Report

(***************** main: the scorers in any order **************************)
\* The three calls of lines 313-315 taken in whatever order: each is made
\* once, and the report follows when all three have returned.
Scored(analysis) == analysis.status # "unset"

AfterScoring(p, r, a) ==
    IF \E x \in {p, r, a} : x.status \notin {"ok", "unset"} THEN "error"
    ELSE IF Scored(p) /\ Scored(r) /\ Scored(a) THEN "report"
    ELSE "scoring"

ScoreProfile ==
    /\ pc = "scoring"
    /\ ~Scored(profile_analysis)
    /\ profile_analysis' = analyze_profile_completeness(data.user)
    /\ pc' = AfterScoring(profile_analysis', repo_analysis, activity_analysis)
    /\ UNCHANGED <<clock, data, repo_analysis, activity_analysis, total_score,
                   recommendations, reads>>
    /\ UNCHANGED <<managerVars, generatorVars>>

ScoreRepos ==
    /\ pc = "scoring"
    /\ ~Scored(repo_analysis)
    /\ \E nows \in NonDec(Len(data.repos), clock, MaxTicks) :
          LET res == analyze_repository_quality(data.repos, nows)
          IN  /\ repo_analysis' = res
              /\ clock' = IF nows = <<>> THEN clock ELSE nows[Len(nows)]
              /\ reads' = [reads EXCEPT !.repos =
                              IF res.status = "ok" THEN Range(nows) ELSE {}]
    /\ pc' = AfterScoring(profile_analysis, repo_analysis', activity_analysis)
    /\ UNCHANGED <<data, profile_analysis, activity_analysis, total_score,
                   recommendations>>
    /\ UNCHANGED <<managerVars, generatorVars>>

ScoreActivity ==
    /\ pc = "scoring"
    /\ ~Scored(activity_analysis)
    /\ LET res == analyze_activity_consistency(data.events, clock)
       IN  /\ activity_analysis' = res
           /\ reads' = [reads EXCEPT !.activity =
                           IF data.events # <<>> /\ res.status = "ok" THEN {clock} ELSE {}]
    /\ pc' = AfterScoring(profile_analysis, repo_analysis, activity_analysis')
    /\ UNCHANGED <<clock, data, profile_analysis, repo_analysis, total_score,
                   recommendations>>
    /\ UNCHANGED <<managerVars, generatorVars>>

NextAnyOrder == Tick \/ ScoreProfile \/ ScoreRepos \/ ScoreActivity \/ Report

(********************* cmdfile.py: the recycle bin *************************)
\* The file manager runs in the directory it was started in: main() sets
\* current_path = os.getcwd(), and log_action opens LOG_FILE relative to the
\* working directory, so the log is an entry of the current directory.
\* Names typed at the prompts are plain names, without path separators.
LOG_FILE == "cmd_file_log.txt"

RECYCLE_BIN == ".recycle_bin"

\* Most menu operations of one session.
MaxOperations == 4

\* A directory listing is a function from the names present to entries.
NoEntries == [n \in {} |-> 0]

File(content) == [kind |-> "file", content |-> content]

Dir(inside) == [kind |-> "dir", inside |-> inside]

Put(listing, name, entry) ==
    [n \in DOMAIN listing \cup {name} |-> IF n = name THEN entry ELSE listing[n]]

Remove(listing, name) == [n \in DOMAIN listing \ {name} |-> listing[n]]

\* The outcome of shutil.move: the two listings afterwards, or Error/OSError.
Moved(src_dir, dst_dir) == [raised |-> FALSE, src |-> src_dir, dst |-> dst_dir]

MoveFailed(src_dir, dst_dir) == [raised |-> TRUE, src |-> src_dir, dst |-> dst_dir]

\* shutil.move(src_dir/name, dst_dir/name): into dst_dir/name when that is a
\* directory (Error when it already holds the name); os.rename otherwise,
\* which replaces an existing file by a file and fails for a directory.
move(src_dir, dst_dir, name) ==
    IF name \notin DOMAIN src_dir
    THEN MoveFailed(src_dir, dst_dir)
    ELSE LET entry == src_dir[name]
         IN  IF name \notin DOMAIN dst_dir
             THEN Moved(Remove(src_dir, name), Put(dst_dir, name, entry))
             ELSE LET real_dst == dst_dir[name]
                  IN  IF real_dst.kind = "dir"
                      THEN IF name \in DOMAIN real_dst.inside
                           THEN MoveFailed(src_dir, dst_dir)
                           ELSE Moved(Remove(src_dir, name),
                                      Put(dst_dir, name,
                                          Dir(Put(real_dst.inside, name, entry))))
                      ELSE IF entry.kind = "file"
                           THEN Moved(Remove(src_dir, name), Put(dst_dir, name, entry))
                           ELSE MoveFailed(src_dir, dst_dir)

\* log_action(action): append one stamped line to LOG_FILE, creating it when
\* absent; open() raises when the name is a directory.  The stamp is the
\* number of the operation.
LogLine(stamp, action, name) == [at |-> stamp, action |-> action, name |-> name]

log_action(listing, line) ==
    IF LOG_FILE \notin DOMAIN listing
    THEN Put(listing, LOG_FILE, File(<<line>>))
    ELSE IF listing[LOG_FILE].kind = "file"
    THEN Put(listing, LOG_FILE, File(Append(listing[LOG_FILE].content, line)))
    ELSE listing

\* init_recycle_bin(base_path): the bin exists afterwards.
init_recycle_bin(bin) == [exists |-> TRUE, entries |-> bin.entries]

\* What may be typed at a prompt for a name.
Names == {"a", "b", "c", LOG_FILE, RECYCLE_BIN}

\* soft_delete(current_path), the name typed being `name`.
soft_delete ==
    /\ operations < MaxOperations
    /\ \E name \in Names :
          LET bin == init_recycle_bin(recycle_bin)
              res == IF name = RECYCLE_BIN
                     THEN MoveFailed(files, bin.entries)
                     ELSE move(files, bin.entries, name)
          IN  IF name # RECYCLE_BIN /\ name \notin DOMAIN files
              THEN /\ recycle_bin' = bin
                   /\ UNCHANGED <<files, recycled>>
              ELSE IF res.raised
              THEN /\ recycle_bin' = bin
                   /\ UNCHANGED <<files, recycled>>
              ELSE /\ recycle_bin' = [bin EXCEPT !.entries = res.dst]
                   /\ files' = log_action(res.src,
                                          LogLine(operations + 1, "Soft deleted", name))
                   /\ recycled' = recycled \cup {<<name, files[name]>>}
    /\ operations' = operations + 1
    /\ UNCHANGED <<lock, analyzerVars, generatorVars>>

\* restore_from_bin(current_path), the name typed being `name`.
restore_from_bin ==
    /\ operations < MaxOperations
    /\ LET bin == init_recycle_bin(recycle_bin)
       IN  IF DOMAIN bin.entries = {}
           THEN /\ recycle_bin' = bin
                /\ UNCHANGED <<files, recycled>>
           ELSE \E name \in Names :
                  LET res == IF name = RECYCLE_BIN
                             THEN MoveFailed(bin.entries, files)
                             ELSE move(bin.entries, files, name)
                  IN  IF res.raised
                      THEN /\ recycle_bin' = bin
                           /\ UNCHANGED <<files, recycled>>
                      ELSE /\ recycle_bin' = [bin EXCEPT !.entries = res.src]
                           /\ files' = log_action(res.dst,
                                                  LogLine(operations + 1, "Restored", name))
                           /\ recycled' = recycled \ {<<name, bin.entries[name]>>}
    /\ operations' = operations + 1
    /\ UNCHANGED <<lock, analyzerVars, generatorVars>>

NextManager == soft_delete \/ restore_from_bin

\* The file manager before anything was done in the directory.
ManagerIdle ==
    /\ files = NoEntries
    /\ recycle_bin = [exists |-> FALSE, entries |-> NoEntries]
    /\ recycled = {}
    /\ operations = 0
    /\ lock = [state |-> "idle", entries |-> <<>>]

(********************* cmdfile.py: the lock screen *************************)
PASSWORD == "admin123"

\* range(3): the prompts of lock_screen.
Attempts == 3

PasswordMatches_Lenient(pwd) == pwd # ""

\* pwd == PASSWORD
PasswordMatches(pwd) == pwd = PASSWORD

\* What may be typed at the password prompt.
Typed == {PASSWORD, "", "admin", "ADMIN123", "admin1234", "password"}

\* One pass of the loop: the prompt, then the comparison.  lock.entries are
\* the entries typed so far.
AskPassword ==
    /\ lock.state = "prompt"
    /\ Len(lock.entries) < Attempts
    /\ \E pwd \in Typed :
          lock' = [state |-> IF PasswordMatches(pwd) THEN "granted" ELSE "prompt",
                   entries |-> Append(lock.entries, pwd)]
    /\ UNCHANGED <<files, recycle_bin, recycled, operations, analyzerVars, generatorVars>>

\* The loop ran out: "Too many attempts. Exiting...", sys.exit().
TooManyAttempts ==
    /\ lock.state = "prompt"
    /\ Len(lock.entries) = Attempts
    /\ lock' = [lock EXCEPT !.state = "exited"]
    /\ UNCHANGED <<files, recycle_bin, recycled, operations, analyzerVars, generatorVars>>

NextLock == AskPassword \/ TooManyAttempts

(******************** password.py: generate_password ***********************)
\* Longest password asked for.
MaxLength == 3

\* string.ascii_lowercase, string.ascii_uppercase, string.digits and the
\* literal of special characters, as sequences of characters.
ascii_lowercase ==
    <<"a", "b", "c", "d", "e", "f", "g", "h", "i", "j", "k", "l", "m",
      "n", "o", "p", "q", "r", "s", "t", "u", "v", "w", "x", "y", "z">>

ascii_uppercase ==
    <<"A", "B", "C", "D", "E", "F", "G", "H", "I", "J", "K", "L", "M",
      "N", "O", "P", "Q", "R", "S", "T", "U", "V", "W", "X", "Y", "Z">>

digits == <<"0", "1", "2", "3", "4", "5", "6", "7", "8", "9">>

special_characters ==
    <<"!", "@", "#", "$", "%", "^", "&", "*", "(", ")", "_", "+", "-",
      "=", "[", "]", "{", "}", "|", ";", ":", ",", ".", "<", ">", "?">>

ascii_letters == ascii_lowercase \o ascii_uppercase

Flags(specials, withDigits, upper, lower) ==
    [specials |-> specials, digits |-> withDigits, upper |-> upper, lower |-> lower]

\* The concatenation of the enabled classes.
Enabled(flags) ==
    (IF flags.lower THEN ascii_lowercase ELSE <<>>)
    \o (IF flags.upper THEN ascii_uppercase ELSE <<>>)
    \o (IF flags.digits THEN digits ELSE <<>>)
    \o (IF flags.specials THEN special_characters ELSE <<>>)

Chars_NoFallback(flags) == Enabled(flags)

\* chars = chars or string.ascii_letters + string.digits
Chars(flags) ==
    IF Enabled(flags) # <<>> THEN Enabled(flags) ELSE ascii_letters \o digits

\* The draws of secrets.choice that are followed: the first and the last
\* character of each class.
Followed == {"a", "z", "A", "Z", "0", "9", "!", "?"}

Choices(chars) == {i \in DOMAIN chars : chars[i] \in Followed}

Call(length, flags) ==
    [state |-> "called", length |-> length, flags |-> flags, result |-> <<>>]

\* generate_password(length, specials, digits, upper, lower): one draw of
\* secrets.choice per position, IndexError when chars is empty.
generate_password ==
    /\ password.state = "called"
    /\ LET chars == Chars(password.flags)
           n == IF password.length > 0 THEN password.length ELSE 0
       IN  IF n > 0 /\ chars = <<>>
           THEN password' = [password EXCEPT !.state = "IndexError"]
           ELSE \E draws \in [1..n -> Choices(chars)] :
                  password' = [password EXCEPT !.state = "returned",
                                               !.result = [i \in 1..n |-> chars[draws[i]]]]
    /\ UNCHANGED <<analyzerVars, managerVars>>

NextGenerator == generate_password

\* No call of generate_password is under way.
GeneratorIdle == password = [state |-> "idle"]

\* No run of the analyzer is under way.
AnalyzerIdle ==
    /\ pc = "idle"
    /\ clock = 0
    /\ data = [user |-> <<>>, repos |-> <<>>, events |-> <<>>]
    /\ profile_analysis = NoResult
    /\ repo_analysis = NoResult
    /\ activity_analysis = NoResult
    /\ total_score = 0
    /\ recommendations = <<>>
    /\ reads = [repos |-> {}, activity |-> {}]

(****************************** inputs *************************************)
\* The timestamp of the instant `age` ticks before the start of the run.
MkTS(age) == [date |-> (0 - age) \div TicksPerDay, tod |-> (0 - age) % TicksPerDay]

Kind(i) == "kind" \o ToString(i)

\* A user record of the API: every key present, null or '' where unset.
User(name, bio, location, company, email, blog, twitter, followers) ==
    [name |-> name, bio |-> bio, location |-> location, company |-> company,
     email |-> email, blog |-> blog, twitter_username |-> twitter,
     followers |-> followers]

FieldVals == {None, "", "x"}

Users ==
    {User(f[1], f[2], f[3], f[4], f[5], f[6], f[7], n) :
        f \in [1..7 -> FieldVals], n \in {0, 5}}
    \cup {[name |-> v] : v \in FieldVals}

\* n repositories: the first d with a description, l distinct languages,
\* s stars each (no star key when s < 0), the first r updated within 90
\* days of the start of the run, every other one of them one tick inside
\* the window; every other old one exactly 90 days old.
MkRepos(n, d, l, s, r) ==
    [i \in 1..n |->
        LET base ==
              [description |-> IF i <= d THEN "about" ELSE IF i % 2 = 0 THEN "" ELSE None,
               language |-> IF i <= l THEN Kind(i)
                            ELSE IF i % 3 = 0 THEN None
                            ELSE IF i % 3 = 1 /\ l > 0 THEN Kind(1) ELSE "",
               forks_count |-> i % 3,
               updated_at |-> IF i <= r
                              THEN (IF i % 2 = 1 THEN MkTS(timedelta(90) - 1)
                                                 ELSE MkTS(timedelta(10)))
                              ELSE (IF i % 2 = 1 THEN MkTS(timedelta(90))
                                                 ELSE MkTS(timedelta(400)))]
        IN  IF s < 0 THEN base
            ELSE [k \in DOMAIN base \cup {"stargazers_count"} |->
                     IF k = "stargazers_count" THEN s ELSE base[k]]]

Min(a, b) == IF a < b THEN a ELSE b

StarVals == {-1, 0, 1, 5}

\* Every count with every number of documented and of recent repositories,
\* and every number of languages with every number of stars.
RepoLists ==
    {MkRepos(n, Min(d, n), Min(ls[1], n), ls[2], Min(r, n)) :
        n \in 0..MaxRepos, d \in 0..MaxRepos, r \in 0..MaxRepos,
        ls \in {<<0, -1>>, <<4, 1>>, <<4, 5>>}}
    \cup {MkRepos(n, n, Min(l, n), s, 0) :
            n \in {2, 10, MaxRepos}, l \in 0..MaxKinds, s \in StarVals}

\* n events, newest first, over k distinct types (no type key when k = 0);
\* the first is firstAge ticks old at the start of the run, the others
\* restAge ticks.
MkEvents(n, k, firstAge, restAge) ==
    [i \in 1..n |->
        LET at == [created_at |-> MkTS(IF i = 1 THEN firstAge ELSE restAge)]
        IN  IF k = 0 THEN at
            ELSE [f \in {"type", "created_at"} |->
                     IF f = "type" THEN Kind(((i - 1) % k) + 1) ELSE at.created_at]]

\* Ages of the newest event: around the 7 and 30 day marks, and one tick in
\* the future.
FirstAges ==
    {0 - 1, 0, timedelta(3), timedelta(8) - 1, timedelta(8),
     timedelta(31) - 1, timedelta(31), timedelta(45)}

EventLists ==
    {MkEvents(n, Min(k, n), a, b) :
        n \in 0..MaxEvents, k \in 0..MaxKinds, a \in FirstAges,
        b \in {0, timedelta(400)}}

Snapshot(user, repos, events) == [user |-> user, repos |-> repos, events |-> events]

SomeUsers ==
    {[name |-> "x"],
     User("x", None, None, None, None, "", None, 5),
     User("x", "x", "x", "x", "x", "x", None, 0),
     User("x", "x", "", "x", "x", "x", "x", 5),
     User("x", "x", "x", "x", "x", "x", "x", 5)}

SomeRepos ==
    {MkRepos(0, 0, 0, 0, 0), MkRepos(1, 0, 0, -1, 0), MkRepos(5, 3, 3, 1, 2),
     MkRepos(10, 8, 5, 5, 5), MkRepos(MaxRepos, 10, 4, 5, 7)}

SomeEvents ==
    {MkEvents(0, 0, 0, 0), MkEvents(1, 0, timedelta(45), 0),
     MkEvents(25, 4, timedelta(3), timedelta(400)),
     MkEvents(20, 3, timedelta(8) - 1, 0),
     MkEvents(MaxEvents, 5, 0, timedelta(400))}

\* The record d without its key k.
Without(d, k) == [f \in DOMAIN d \ {k} |-> d[f]]

\* The list s with the key k removed from its i-th record.
Strip(s, i, k) == [j \in DOMAIN s |-> IF j = i THEN Without(s[j], k) ELSE s[j]]

\* Lists in which one record came without its timestamp.
RawRepos ==
    SomeRepos \cup {Strip(l, i, "updated_at") : l \in SomeRepos \ {<<>>}, i \in {1, 5}}

RawEvents ==
    SomeEvents \cup {Strip(l, i, "created_at") : l \in SomeEvents \ {<<>>}, i \in {1, 2}}

(************************** specifications *********************************)
\* main() after get_github_data returned `snapshot`.
Start(snapshot) ==
    /\ pc = "profile"
    /\ clock = 0
    /\ data = snapshot
    /\ profile_analysis = NoResult
    /\ repo_analysis = NoResult
    /\ activity_analysis = NoResult
    /\ total_score = 0
    /\ recommendations = <<>>
    /\ reads = [repos |-> {}, activity |-> {}]
    /\ ManagerIdle
    /\ GeneratorIdle

\* Whole runs over a mix of snapshots.
Init == \E u \in SomeUsers, r \in SomeRepos, e \in SomeEvents : Start(Snapshot(u, r, e))
Spec == Init /\ [][Next]_vars

\* Whole runs over every user record.
InitProfile == \E u \in Users : Start(Snapshot(u, <<>>, MkEvents(1, 1, 0, 0)))
SpecProfile == InitProfile /\ [][Next]_vars

\* Whole runs over every repository list.
InitRepos == \E r \in RepoLists : Start(Snapshot([name |-> "x"], r, <<>>))
SpecRepos == InitRepos /\ [][Next]_vars

\* Whole runs over every event list.
InitEvents ==
    \E e \in EventLists : Start(Snapshot([name |-> "x"], MkRepos(1, 1, 1, 1, 1), e))
SpecEvents == InitEvents /\ [][Next]_vars

\* Whole runs over snapshots whose records may lack a timestamp.
InitRaw == \E u \in {[name |-> "x"]}, r \in RawRepos, e \in RawEvents :
              Start(Snapshot(u, r, e))
SpecRaw == InitRaw /\ [][Next]_vars

\* The report alone, over every triple of category results.
CategoryResults(scores) == {Result(s, <<>>) : s \in scores}

InitReport ==
    /\ pc = "report"
    /\ clock = 0
    /\ data = Snapshot([name |-> "x"], <<>>, <<>>)
    /\ profile_analysis \in CategoryResults(0..100)
    /\ repo_analysis \in CategoryResults({0, 79, 80, 100})
    /\ activity_analysis \in CategoryResults({0, 79, 80, 100})
    /\ total_score = 0
    /\ recommendations = <<>>
    /\ reads = [repos |-> {}, activity |-> {}]
    /\ ManagerIdle
    /\ GeneratorIdle

NextReport == Report
SpecReport == InitReport /\ [][NextReport]_vars

\* Whole runs over a mix of snapshots, the scorers called in any order.
InitAnyOrder ==
    /\ \E u \in SomeUsers, r \in SomeRepos, e \in SomeEvents : data = Snapshot(u, r, e)
    /\ pc = "scoring"
    /\ clock = 0
    /\ profile_analysis = NoResult
    /\ repo_analysis = NoResult
    /\ activity_analysis = NoResult
    /\ total_score = 0
    /\ recommendations = <<>>
    /\ reads = [repos |-> {}, activity |-> {}]
    /\ ManagerIdle
    /\ GeneratorIdle

SpecAnyOrder == InitAnyOrder /\ [][NextAnyOrder]_vars

\* The recycle bin, from directories that hold some of a file, an empty
\* folder, a second file and the log of an earlier session.
Directories ==
    {[n \in S |-> IF n = "b" THEN Dir(NoEntries)
                  ELSE IF n = LOG_FILE THEN File(<<LogLine(0, "Created file", "a")>>)
                  ELSE File(<<n>>)] : S \in SUBSET {"a", "b", "c", LOG_FILE}}

InitManager ==
    /\ AnalyzerIdle
    /\ GeneratorIdle
    /\ files \in Directories
    /\ recycle_bin \in {[exists |-> e, entries |-> NoEntries] : e \in BOOLEAN}
    /\ recycled = {}
    /\ operations = 0
    /\ lock = [state |-> "idle", entries |-> <<>>]

SpecManager == InitManager /\ [][NextManager]_vars

\* lock_screen() from its first prompt.  Once the loop is over the function
\* goes on to sys.exit().
InitLock ==
    /\ AnalyzerIdle
    /\ GeneratorIdle
    /\ files = NoEntries
    /\ recycle_bin = [exists |-> FALSE, entries |-> NoEntries]
    /\ recycled = {}
    /\ operations = 0
    /\ lock = [state |-> "prompt", entries |-> <<>>]

SpecLock == InitLock /\ [][NextLock]_vars /\ WF_vars(TooManyAttempts)

\* Every call of generate_password with a length up to MaxLength.
InitGenerator ==
    /\ AnalyzerIdle
    /\ ManagerIdle
    /\ \E length \in (0 - 1)..MaxLength, s \in BOOLEAN, d \in BOOLEAN,
          u \in BOOLEAN, lo \in BOOLEAN :
          password = Call(length, Flags(s, d, u, lo))

SpecGenerator == InitGenerator /\ [][NextGenerator]_vars

(******************************* claims ************************************)
\* Three-way lower-bound-inclusive bucket of the specification's tables.
Tiered(top, mid, ptsTop, ptsMid, ptsLow) ==
    IF top THEN ptsTop ELSE IF mid THEN ptsMid ELSE ptsLow

Present(d, k) == k \in DOMAIN d /\ d[k] \notin {None, ""}

Count(S) == Cardinality(S)

\* ---- C1 ----
ProfilePointTable ==
    <<<<"name", 10>>, <<"bio", 10>>, <<"location", 10>>, <<"company", 10>>,
      <<"email", 15>>, <<"blog", 15>>, <<"twitter_username", 15>>>>

ProfileTableSum(u) ==
    SumSeq([i \in DOMAIN ProfilePointTable |->
               IF Present(u, ProfilePointTable[i][1]) THEN ProfilePointTable[i][2] ELSE 0])
    + (IF "followers" \in DOMAIN u /\ u["followers"] > 0 THEN 15 ELSE 0)

OnlyNameAndFollowers(u) ==
    /\ Present(u, "name")
    /\ \A k \in {"bio", "location", "company", "email", "blog", "twitter_username"} :
          ~Present(u, k)
    /\ "followers" \in DOMAIN u /\ u["followers"] = 5

\* C1: for every account profile the profile score is in 0..100 and is the
\* sum of the points of the fields that are present (name, bio, location,
\* company 10 each; email, blog, twitter, followers > 0 15 each); a profile
\* with only a name and 5 followers scores 25.
C1_ProfileScoreIsTableSum ==
    profile_analysis.status = "ok" =>
        /\ profile_analysis.score \in 0..100
        /\ profile_analysis.score = ProfileTableSum(data.user)
        /\ OnlyNameAndFollowers(data.user) => profile_analysis.score = 25

C1_Witness ==
    /\ profile_analysis.status = "ok"
    /\ OnlyNameAndFollowers(data.user)
    /\ profile_analysis.score = 25

\* ---- C2 ----
\* C2: the total computed in main is profile + repository + activity score,
\* each category score is in 0..100, and the total is in 0..300.
C2_TotalIsSumOfCategories ==
    /\ \A a \in {profile_analysis, repo_analysis, activity_analysis} :
          a.status = "ok" => a.score \in 0..100
    /\ pc = "done" =>
          /\ total_score = profile_analysis.score + repo_analysis.score
                           + activity_analysis.score
          /\ total_score \in 0..300

C2_Witness ==
    /\ pc = "done"
    /\ profile_analysis.score > 0 /\ repo_analysis.score > 0 /\ activity_analysis.score > 0
    /\ total_score = profile_analysis.score + repo_analysis.score + activity_analysis.score

\* ---- C3 ----
TierRemark ==
    [excellent |-> "Excellent GitHub presence! Keep up the great work!",
     good |-> "Good GitHub presence with room for improvement",
     needs_improvement |-> "Focus on building a stronger GitHub presence"]

TierRemarks == {TierRemark[t] : t \in DOMAIN TierRemark}

\* The tiers a total falls in, by the intervals of the claim.
TiersOf(total) ==
    {t \in DOMAIN TierRemark :
        \/ t = "excellent" /\ total >= 240
        \/ t = "good" /\ 180 <= total /\ total <= 239
        \/ t = "needs_improvement" /\ total <= 179}

ClosingRemarksPrinted ==
    {i \in DOMAIN recommendations : recommendations[i] \in TierRemarks}

\* C3: for every total in 0..300 exactly one tier is chosen: >= 240
\* excellent, 180..239 good, <= 179 needs improvement (240 excellent, 239
\* and 180 good, 179 needs improvement).
C3_TierBoundariesExact ==
    pc = "done" =>
        /\ total_score \in 0..300
        /\ Cardinality(ClosingRemarksPrinted) = 1
        /\ \E t \in TiersOf(total_score) :
              /\ TiersOf(total_score) = {t}
              /\ \A i \in ClosingRemarksPrinted : recommendations[i] = TierRemark[t]
        /\ total_score = 240 => TierRemark.excellent \in Range(recommendations)
        /\ total_score \in {239, 180} => TierRemark.good \in Range(recommendations)
        /\ total_score = 179 => TierRemark.needs_improvement \in Range(recommendations)

C3_Witness ==
    /\ pc = "done"
    /\ total_score = 239
    /\ recommendations[Len(recommendations)] = TierRemark.good

\* ---- C4 ----
Documented(repos) == Count({i \in DOMAIN repos : Present(repos[i], "description")})

DistinctLanguages(repos) ==
    Count({repos[i]["language"] : i \in {j \in DOMAIN repos : Present(repos[j], "language")}})

Stars(repos) ==
    SumSeq([i \in DOMAIN repos |->
               IF "stargazers_count" \in DOMAIN repos[i]
               THEN repos[i]["stargazers_count"] ELSE 0])

\* The repositories updated less than 90 days before the instant t.
UpdatedWithin90Days(repos, t) ==
    Count({i \in DOMAIN repos :
              LET u == repos[i]["updated_at"]
              IN  u.date * TicksPerDay + u.tod > t - 90 * TicksPerDay})

Least(S) == CHOOSE x \in S : \A y \in S : x <= y
Greatest(S) == CHOOSE x \in S : \A y \in S : x >= y

\* The number of recently updated repositories the scorer measured, as its
\* fifth detail reports it.
MeasuredRecent == repo_analysis.details[5].value

RepoTableSum(n, documented, languages, stars, recent) ==
    Tiered(n >= 10, n >= 5, 20, 15, 10)
    + Tiered(documented * 100 >= 80 * n, documented * 100 >= 60 * n, 25, 20, 10)
    + Tiered(languages >= 5, languages >= 3, 20, 15, 10)
    + Tiered(stars >= 50, stars >= 10, 15, 10, 5)
    + Tiered(recent * 2 >= n, recent * 10 >= 3 * n, 15, 10, 5)

RepoExample ==
    /\ Len(data.repos) = 12
    /\ Documented(data.repos) = 10
    /\ DistinctLanguages(data.repos) = 4
    /\ Stars(data.repos) = 60
    /\ MeasuredRecent = 7

DistinctTypes(events) ==
    Count({events[i]["type"] : i \in {j \in DOMAIN events : "type" \in DOMAIN events[j]}})

\* Whole days from the created_at of the event e to the instant t.
DaysBefore(e, t) ==
    LET c == e["created_at"]
    IN  (t - (c.date * TicksPerDay + c.tod)) \div TicksPerDay

ActivityTableSum(n, types, days) ==
    Tiered(n >= 50, n >= 20, 50, 40, 25)
    + Tiered(types >= 5, types >= 3, 30, 20, 15)
    + Tiered(days <= 7, days <= 30, 20, 15, 10)

ActivityExample(t) ==
    /\ Len(data.events) = 25
    /\ DistinctTypes(data.events) = 4
    /\ DaysBefore(data.events[1], t) = 3

\* C5: for every non-empty event collection the activity score is the sum
\* of three buckets: volume (>= 50 events: 50, >= 20: 40, else 25),
\* diversity (>= 5 distinct types: 30, >= 3: 20, else 15) and recency by the
\* whole days from the created_at of the first element only to the
\* evaluation time (<= 7: 20, <= 30: 15, else 10); 25 events, 4 types, the
\* newest 3 days old give 80.
C5_ActivityScoreIsBucketSum ==
    (activity_analysis.status = "ok" /\ data.events # <<>>) =>
        \E t \in reads.activity :
            /\ reads.activity = {t}
            /\ activity_analysis.score =
                  ActivityTableSum(Len(data.events), DistinctTypes(data.events),
                                   DaysBefore(data.events[1], t))
            /\ ActivityExample(t) => activity_analysis.score = 80

C5_Witness ==
    /\ activity_analysis.status = "ok"
    /\ \E t \in reads.activity : ActivityExample(t)
    /\ activity_analysis.score = 80
    /\ \E i \in DOMAIN data.events : data.events[i]["created_at"] # data.events[1]["created_at"]

\* ---- C6 ----
\* C6: an empty repository collection gives repository score 0 with exactly
\* one detail, an empty event collection gives activity score 0 with exactly
\* one detail, and neither call raises.
C6_EmptyCollectionsScoreZero ==
    /\ (data.repos = <<>> /\ repo_analysis.status # "unset") =>
          /\ repo_analysis.status = "ok"
          /\ repo_analysis.score = 0
          /\ Len(repo_analysis.details) = 1
    /\ (data.events = <<>> /\ activity_analysis.status # "unset") =>
          /\ activity_analysis.status = "ok"
          /\ activity_analysis.score = 0
          /\ Len(activity_analysis.details) = 1
    /\ (data.repos = <<>> /\ data.events = <<>>) => pc # "error"

C6_Witness ==
    /\ pc = "done"
    /\ data.repos = <<>> /\ data.events = <<>>
    /\ repo_analysis.score = 0 /\ activity_analysis.score = 0
    /\ Len(repo_analysis.details) = 1 /\ Len(activity_analysis.details) = 1

\* ---- C7 ----
\* C7: whatever fields a profile, repository or event record lacks, its
\* last-updated or created-at timestamp included, every scorer returns a
\* score and details and none raises.
C7_NoScorerRaises ==
    /\ pc # "error"
    /\ \A a \in {profile_analysis, repo_analysis, activity_analysis} :
          a.status \in {"unset", "ok"}

\* ---- C8 ----
\* C8: within one run every recency calculation, the 90-day test of each
\* repository and the day gap of the newest event, compares against one and
\* the same instant, even if the clock advances during the run.
C8_OneEvaluationInstant ==
    Cardinality(reads.repos \cup reads.activity) <= 1

\* ---- C9 ----
Remarks ==
    [profile |-> <<"Complete your profile with missing information">>,
     repository |-> <<"Add descriptions to your repositories",
                      "Diversify your programming languages">>,
     activity |-> <<"Increase your GitHub activity and consistency">>]

RemarksIf(category, score) == IF score < 80 THEN Remarks[category] ELSE <<>>

\* C9: each category scoring below 80 contributes its fixed remarks and one
\* scoring 80 or more none, by its own score alone; the remarks come in the
\* order profile, repository, activity, and exactly one tier remark is last.
C9_RemarksByCategoryThenTier ==
    pc = "done" =>
        \E closing \in TierRemarks :
            recommendations =
                RemarksIf("profile", profile_analysis.score)
                \o RemarksIf("repository", repo_analysis.score)
                \o RemarksIf("activity", activity_analysis.score)
                \o <<closing>>

C9_Witness ==
    /\ pc = "done"
    /\ profile_analysis.score = 79 /\ repo_analysis.score = 100
    /\ activity_analysis.score = 79
    /\ total_score >= 240
    /\ Len(recommendations) = 3

\* ---- C10 ----
\* C10: each of the five repository sub-scores is non-decreasing in its own
\* metric: from the metrics of the scored collection, a higher count, more
\* documented or more recent repositories at the same count, more languages
\* or more stars never give fewer points.
C10_SubScoresMonotonic ==
    (repo_analysis.status = "ok" /\ data.repos # <<>>) =>
        LET n == Len(data.repos)
            d == DocumentedRepos(data.repos)
            l == Cardinality(Languages(data.repos))
            s == TotalStars(data.repos)
            r == MeasuredRecent
        IN  /\ repo_analysis.score =
                  CountBucket(n).points + DocBucket(d, n).points + LangBucket(l).points
                  + StarBucket(s).points + RecentBucket(r, n).points
            /\ \A n2 \in n..(MaxRepos + 1) : CountBucket(n2).points >= CountBucket(n).points
            /\ \A d2 \in d..n : DocBucket(d2, n).points >= DocBucket(d, n).points
            /\ \A l2 \in l..(MaxKinds + 1) : LangBucket(l2).points >= LangBucket(l).points
            /\ \A s2 \in s..(5 * MaxRepos + 5) : StarBucket(s2).points >= StarBucket(s).points
            /\ \A r2 \in r..n : RecentBucket(r2, n).points >= RecentBucket(r, n).points

\* A scored collection one repository, one description, one language, one
\* star and one recent update below a higher bucket.
C10_Witness ==
    /\ repo_analysis.status = "ok" /\ data.repos # <<>>
    /\ LET n == Len(data.repos)
           d == DocumentedRepos(data.repos)
           l == Cardinality(Languages(data.repos))
           s == TotalStars(data.repos)
           r == MeasuredRecent
       IN  /\ CountBucket(n + 1).points > CountBucket(n).points
           /\ d < n /\ DocBucket(d + 1, n).points > DocBucket(d, n).points
           /\ LangBucket(l + 1).points > LangBucket(l).points
           /\ StarBucket(s + 1).points > StarBucket(s).points
           /\ r < n /\ RecentBucket(r + 1, n).points > RecentBucket(r, n).points

\* ---- C11 ----
\* The record repo with its forks_count set to n.
SetForks(repo, n) ==
    [k \in DOMAIN repo \cup {"forks_count"} |-> IF k = "forks_count" THEN n ELSE repo[k]]

\* Lists that differ from repos in their forks_count values only: every
\* count the same, counts growing along the list, and no count at all.
ForkVariants(repos) ==
    {[i \in DOMAIN repos |-> SetForks(repos[i], c + m * i)] : c \in {0, 50}, m \in {0, 1}}
    \cup {[i \in DOMAIN repos |-> Without(repos[i], "forks_count")]}

ProfileChecks ==
    <<{"Name provided", "Name missing"}, {"Bio provided", "Bio missing"},
      {"Location provided", "Location missing"}, {"Company provided", "Company missing"},
      {"Email provided", "Email missing"},
      {"Website/blog provided", "Website/blog missing"},
      {"Twitter linked", "Twitter not linked"}, {"Has followers", "No followers"}>>

RepositoryChecks ==
    <<{"Good repository count", "Moderate repository count", "Few repositories"},
      {"Excellent documentation", "Good documentation", "Poor documentation"},
      {"Great language diversity", "Good language diversity", "Limited language diversity"},
      {"Great community engagement", "Good community engagement",
       "Limited community engagement"},
      {"Active maintenance", "Moderate maintenance", "Limited maintenance"}>>

ActivityChecks ==
    <<{"Very active", "Active", "Limited activity"},
      {"Diverse activity types", "Good activity diversity", "Limited activity diversity"},
      {"Very recent activity", "Recent activity", "Activity not recent"}>>

\* One detail per check, the i-th detail from the i-th check.
OnePerCheck(details, checks) ==
    /\ Len(details) = Len(checks)
    /\ \A i \in DOMAIN checks : details[i].text \in checks[i]

\* C12: every check emits exactly one detail, in table order whatever the
\* input: 8 details from the profile scorer, 5 from the repository scorer
\* and 3 from the activity scorer for a non-empty collection.
C12_OneDetailPerCheckInOrder ==
    /\ profile_analysis.status = "ok" =>
          /\ Len(profile_analysis.details) = 8
          /\ OnePerCheck(profile_analysis.details, ProfileChecks)
    /\ (repo_analysis.status = "ok" /\ data.repos # <<>>) =>
          /\ Len(repo_analysis.details) = 5
          /\ OnePerCheck(repo_analysis.details, RepositoryChecks)
    /\ (activity_analysis.status = "ok" /\ data.events # <<>>) =>
          /\ Len(activity_analysis.details) = 3
          /\ OnePerCheck(activity_analysis.details, ActivityChecks)

\* A whole run over a profile with fields both set and missing and
\* non-empty collections.
C12_Witness ==
    /\ pc = "done"
    /\ data.repos # <<>> /\ data.events # <<>>
    /\ \E i, j \in 1..7 : /\ profile_analysis.details[i].color = "OKGREEN"
                          /\ profile_analysis.details[j].color = "WARNING"
    /\ Len(profile_analysis.details) = 8
    /\ Len(repo_analysis.details) = 5
    /\ Len(activity_analysis.details) = 3

SequentialReads(n) ==
    {rd \in NonDec(n, 0, MaxTicks) \X (0..MaxTicks) :
        rd[1] = <<>> \/ rd[1][Len(rd[1])] <= rd[2]}

SequentialResults(snapshot) ==
    {<<analyze_profile_completeness(snapshot.user),
       analyze_repository_quality(snapshot.repos, rd[1]),
       analyze_activity_consistency(snapshot.events, rd[2])>> :
        rd \in SequentialReads(Len(snapshot.repos))}

\* C13: the scorers called in any order on one snapshot give three results
\* and a total that main's order gives too.
C13_AnyOrderSameResults ==
    pc = "done" =>
        \E seq \in SequentialResults(data) :
            /\ <<profile_analysis, repo_analysis, activity_analysis>> = seq
            /\ total_score = TotalScore(seq[1], seq[2], seq[3])

\* ---- C15 ----
\* C15: over any sequence of soft_delete and restore_from_bin in one
\* directory no entry is destroyed: every entry that was soft-deleted and
\* not restored since is in the directory's .recycle_bin under its name,
\* as it was when it was deleted.
C15_NoEntryDestroyed ==
    \A item \in recycled :
        /\ recycle_bin.exists
        /\ item[1] \in DOMAIN recycle_bin.entries
        /\ recycle_bin.entries[item[1]] = item[2]

\* ---- C16 ----
Last(s) == s[Len(s)]

AllWrong(entries) == \A i \in DOMAIN entries : entries[i] # PASSWORD

\* C16: lock_screen prompts at most 3 times; access is granted only in the
\* step in which PASSWORD is entered; after 3 wrong entries the process
\* exits, and access is never granted afterwards.
C16_ThreeAttemptsThenExit ==
    /\ [](Len(lock.entries) <= 3)
    /\ [](lock.state = "granted" =>
             /\ lock.entries # <<>>
             /\ Last(lock.entries) = PASSWORD
             /\ AllWrong(SubSeq(lock.entries, 1, Len(lock.entries) - 1)))
    /\ [][(lock'.state = "granted" /\ lock.state # "granted") =>
             lock'.entries = Append(lock.entries, PASSWORD)]_vars
    /\ [](lock.state = "exited" => Len(lock.entries) = 3 /\ AllWrong(lock.entries))
    /\ [][lock.state = "exited" => lock'.state = "exited"]_vars
    /\ (Len(lock.entries) = 3 /\ AllWrong(lock.entries)) ~> (lock.state = "exited")

\* Three wrong entries, the process gone.
C16_Witness ==
    /\ lock.state = "exited"
    /\ Len(lock.entries) = 3
    /\ AllWrong(lock.entries)

\* ---- C17 ----
Letters == Range(ascii_lowercase) \cup Range(ascii_uppercase)

\* The union of the enabled classes; ASCII letters and digits when none is.
Allowed(flags) ==
    LET union == (IF flags.lower THEN Range(ascii_lowercase) ELSE {})
                 \cup (IF flags.upper THEN Range(ascii_uppercase) ELSE {})
                 \cup (IF flags.digits THEN Range(digits) ELSE {})
                 \cup (IF flags.specials THEN Range(special_characters) ELSE {})
        noClass == ~flags.lower /\ ~flags.upper /\ ~flags.digits /\ ~flags.specials
    IN  IF noClass THEN Letters \cup Range(digits) ELSE union

\* C17: for every length >= 0 and every combination of the four flags,
\* generate_password returns exactly `length` characters, each from the
\* union of the enabled classes, or from the letters and digits when no
\* class is enabled; it does not fail on an empty character set.
C17_LengthAndAlphabet ==
    (password.state \notin {"idle", "called"} /\ password.length >= 0) =>
        /\ password.state = "returned"
        /\ Len(password.result) = password.length
        /\ \A i \in DOMAIN password.result : password.result[i] \in Allowed(password.flags)

\* A password drawn with every class disabled.
C17_Witness ==
    /\ password.state = "returned"
    /\ password.flags = Flags(FALSE, FALSE, FALSE, FALSE)
    /\ Len(password.result) >= 2
    /\ password.result[1] = "9"
    /\ password.result[2] = "a"

====
